---- MODULE Spec2Model ----
(***************************************************************************)
(* State-machine model of the PDFViewer component (src/pages/index.tsx):   *)
(* the React state of the component, the localStorage blob, the clock that *)
(* Date.now() reads, the asynchronous load and export procedures split at  *)
(* their awaits, and the document offered for download.  The flag          *)
(* hasUnsavedChanges only feeds the beforeunload prompt and is left out.   *)
(*                                                                         *)
(* Lengths are integers.  PDF page sizes are chosen even so that the       *)
(* viewport at scale 1.5 = ScaleNum/ScaleDen is an integer number of       *)
(* pixels.                                                                 *)
(***************************************************************************)
EXTENDS Integers, Sequences, FiniteSets, TLC

VARIABLES pdfFile, numPages, annotations, selectedAnnotation, loading,
          storage, now, canvas, pc, pending, loadPage,
          exportAnnotations, pdfDoc, download, rendered

\* pdfFile, numPages, annotations, selectedAnnotation, loading: the React
\*   state of PDFViewer.  storage: the blob under 'pdf-annotations'.
\* now: the last value Date.now() returned.  canvas: the sizes of the pixel
\*   surfaces, by page.  pc: where the mount, the load or the export in
\*   flight stands.  pending: the state update queued by the restore effect.
\* loadPage: the loop variable i of loadPdf.  exportAnnotations: the
\*   annotations the running exportPdf closed over.  pdfDoc: its in-memory
\*   document.  download: the document the last step offered through the
\*   temporary link, if any.  rendered: the pages (1-based) whose
\*   page.render into the canvas has resolved in the latest load.
vars == <<pdfFile, numPages, annotations, selectedAnnotation, loading,
          storage, now, canvas, pc, pending, loadPage,
          exportAnnotations, pdfDoc, download, rendered>>

\* ------------------------------------------------------------------ bounds
MaxAnnotations == 2
MaxClock == 2

\* --------------------------------------------------------------- constants
NULL == "null"
ScaleNum == 3
ScaleDen == 2
DefaultText == "Type here..."
PdfType == "application/pdf"
FontSizes == {"small", "medium", "large"}
Texts == {"Hi"}

\* The files the user can pick.  sizes: the pages' boxes in PDF units;
\* valid: whether pdfjsLib.getDocument resolves; libPages: the number of
\* pages PDFDocument.load finds when it decodes the same bytes again.
Files ==
  [ A |-> [type |-> PdfType, valid |-> TRUE,
           sizes |-> <<[w |-> 2, h |-> 2], [w |-> 2, h |-> 4]>>, libPages |-> 2],
    B |-> [type |-> PdfType, valid |-> TRUE,
           sizes |-> <<[w |-> 4, h |-> 2]>>, libPages |-> 0],
    X |-> [type |-> PdfType, valid |-> FALSE,
           sizes |-> <<>>, libPages |-> 0],
    T |-> [type |-> "text/plain", valid |-> FALSE,
           sizes |-> <<>>, libPages |-> 0] ]

FileNames == DOMAIN Files

\* An optional value: None, or Some(v) holding v.
None == <<>>

Some(v) == <<v>>

\* What localStorage may hold under 'pdf-annotations' when the page opens:
\* nothing, or a blob an earlier session of the program wrote.

StoredBlobs ==
  { None, Some(<<>>), Some(<< <<"0", 0, 0, 0, DefaultText, "medium">> >>) }

\* ----------------------------------------------------------------- helpers
Last(s) == s[Len(s)]

Min(a, b) == IF a < b THEN a ELSE b

\* JSON.stringify(annotations): a flat structure, one tuple per annotation.
JSONStringify(anns) ==
  [i \in 1..Len(anns) |->
     <<anns[i].id, anns[i].page, anns[i].x, anns[i].y, anns[i].text,
       anns[i].fontSize>>]

\* JSON.parse of such a blob.
JSONParse(blob) ==
  [i \in 1..Len(blob) |->
     [id |-> blob[i][1], page |-> blob[i][2], x |-> blob[i][3],
      y |-> blob[i][4], text |-> blob[i][5], fontSize |-> blob[i][6]]]

\* annotations.filter(ann => ann.page === index)
RECURSIVE FilterPage(_, _)
FilterPage(anns, index) ==
  IF anns = <<>> THEN <<>>
  ELSE IF Head(anns).page = index
       THEN <<Head(anns)>> \o FilterPage(Tail(anns), index)
       ELSE FilterPage(Tail(anns), index)

forPage(index) == FilterPage(annotations, index)

\* annotations.filter(ann => ann.id !== id)
RECURSIVE FilterNotId(_, _)
FilterNotId(anns, id) ==
  IF anns = <<>> THEN <<>>
  ELSE IF Head(anns).id # id
       THEN <<Head(anns)>> \o FilterNotId(Tail(anns), id)
       ELSE FilterNotId(Tail(anns), id)

\* page.getViewport({ scale: 1.5 }) of page i (1-based) of a file.
getViewport(f, i) ==
  [w |-> (Files[f].sizes[i].w * ScaleNum) \div ScaleDen,
   h |-> (Files[f].sizes[i].h * ScaleNum) \div ScaleDen]

\* ------------------------------------------------------------------- Init
Init ==
  /\ pdfFile = NULL
  /\ numPages = 0
  /\ annotations = <<>>
  /\ selectedAnnotation = NULL
  /\ loading = FALSE
  /\ storage \in StoredBlobs
  /\ now = 1
  /\ canvas = <<>>
  /\ pc = "mount"
  /\ pending = <<>>
  /\ loadPage = 0
  /\ exportAnnotations = <<>>
  /\ pdfDoc = None
  /\ download = None
  /\ rendered = {}

\* ------------------------------------------------------------- mount effects
\* Mutant of MountEffects: the persist effect runs before the restore effect
\* reads the blob, so the restore effect finds the empty set.
MountEffectsPersistFirst ==
  /\ pc = "mount"
  /\ storage' = Some(JSONStringify(annotations))
  /\ LET parsed == JSONParse(JSONStringify(annotations))
         restore == Len(parsed) > 0
     IN /\ pending' = parsed
        /\ pc' = IF restore THEN "restore" ELSE "idle"
  /\ download' = None
  /\ UNCHANGED <<pdfFile, numPages, annotations, selectedAnnotation, loading,
                 now, canvas, loadPage, exportAnnotations, pdfDoc, rendered>>

\* The two effects of the first commit, in declaration order: the restore
\* effect queues setAnnotations(parsed) when the blob is present and
\* non-empty; the persist effect then runs with the annotations of the first
\* render, the empty set.
MountEffects ==
  /\ pc = "mount"
  /\ LET parsed == IF storage = None THEN <<>> ELSE JSONParse(storage[1])
         restore == Len(parsed) > 0
     IN /\ pending' = parsed
        /\ pc' = IF restore THEN "restore" ELSE "idle"
  /\ storage' = Some(JSONStringify(annotations))
  /\ download' = None
  /\ UNCHANGED <<pdfFile, numPages, annotations, selectedAnnotation, loading,
                 now, canvas, loadPage, exportAnnotations, pdfDoc, rendered>>

\* The re-render that applies the queued setAnnotations(parsed), followed by
\* the persist effect.
RestoreCommit ==
  /\ pc = "restore"
  /\ annotations' = pending
  /\ storage' = Some(JSONStringify(pending))
  /\ pending' = <<>>
  /\ pc' = "idle"
  /\ download' = None
  /\ UNCHANGED <<pdfFile, numPages, selectedAnnotation, loading, now, canvas,
                 loadPage, exportAnnotations, pdfDoc, rendered>>

\* ------------------------------------------------------------------- load
\* The component is mounted and its first effects have been applied.
Mounted == pc \notin {"mount", "restore"}

\* Mutant of handleFileChange: the declared type is not tested.
handleFileChangeAnyType(f) ==
  /\ Mounted
  /\ ~loading
  /\ IF f # NULL
     THEN /\ loading' = TRUE
          /\ pdfFile' = f
          /\ annotations' = <<>>
          /\ storage' = Some(JSONStringify(<<>>))
          /\ pc' = "read"
          /\ loadPage' = 0
          /\ rendered' = {}
     ELSE UNCHANGED <<loading, pdfFile, annotations, storage, pc, loadPage,
                      rendered>>
  /\ download' = None
  /\ UNCHANGED <<numPages, selectedAnnotation, now, canvas, pending,
                 exportAnnotations, pdfDoc>>

\* handleFileChange up to its await: the input is disabled while loading.
\* A missing file or a type other than application/pdf takes the alert
\* branch.  setAnnotations([]) re-runs the persist effect.  A new call of
\* loadPdf has rendered no page and its loop variable does not exist yet.
handleFileChange(f) ==
  /\ Mounted
  /\ ~loading
  /\ IF f # NULL /\ Files[f].type = PdfType
     THEN /\ loading' = TRUE
          /\ pdfFile' = f
          /\ annotations' = <<>>
          /\ storage' = Some(JSONStringify(<<>>))
          /\ pc' = "read"
          /\ loadPage' = 0
          /\ rendered' = {}
     ELSE UNCHANGED <<loading, pdfFile, annotations, storage, pc, loadPage,
                      rendered>>
  /\ download' = None
  /\ UNCHANGED <<numPages, selectedAnnotation, now, canvas, pending,
                 exportAnnotations, pdfDoc>>

\* reader.onload: getDocument resolves, setNumPages, the ref arrays are
\* sliced to the new page count and the loop starts at page 1.
LoadDecode ==
  /\ pc = "read"
  /\ Files[pdfFile].valid
  /\ numPages' = Len(Files[pdfFile].sizes)
  /\ canvas' = SubSeq(canvas, 1, Min(Len(canvas), Len(Files[pdfFile].sizes)))
  /\ loadPage' = 1
  /\ pc' = "render"
  /\ download' = None
  /\ UNCHANGED <<pdfFile, annotations, selectedAnnotation, loading,
                 storage, now, pending, exportAnnotations,
                 pdfDoc, rendered>>

\* reader.onerror, or getDocument rejects: the promise is rejected.
LoadDecodeFail ==
  /\ pc = "read"
  /\ pc' = "loadCatch"
  /\ download' = None
  /\ UNCHANGED <<pdfFile, numPages, annotations, selectedAnnotation, loading,
                 storage, now, canvas, pending, loadPage,
                 exportAnnotations, pdfDoc, rendered>>

\* Mutant of LoadRenderPage: a rejected render is swallowed and the loop goes
\* on with the next page.
LoadRenderPageContinue(ok) ==
  /\ pc = "render"
  /\ LET i == loadPage
         vp == getViewport(pdfFile, i)
     IN /\ canvas' = IF i <= Len(canvas) THEN [canvas EXCEPT ![i] = vp]
                     ELSE Append(canvas, vp)
        /\ rendered' = IF ok THEN rendered \cup {i} ELSE rendered
        /\ IF i < numPages THEN loadPage' = i + 1 /\ UNCHANGED pc
           ELSE pc' = "loadReturn" /\ UNCHANGED loadPage
        /\ download' = None
  /\ UNCHANGED <<pdfFile, numPages, annotations, selectedAnnotation, loading,
                 storage, now, pending, exportAnnotations,
                 pdfDoc>>

\* One iteration of the page loop: the canvas of page i takes the size of
\* the viewport and the page is rendered into it; the render resolves (ok) or
\* rejects.  The next iteration starts only after the await.
LoadRenderPage(ok) ==
  /\ pc = "render"
  /\ LET i == loadPage
         vp == getViewport(pdfFile, i)
     IN /\ canvas' = IF i <= Len(canvas) THEN [canvas EXCEPT ![i] = vp]
                     ELSE Append(canvas, vp)
        /\ rendered' = IF ok THEN rendered \cup {i} ELSE rendered
        /\ IF ~ok THEN pc' = "loadCatch" /\ UNCHANGED loadPage
           ELSE IF i < numPages THEN loadPage' = i + 1 /\ UNCHANGED pc
           ELSE pc' = "loadReturn" /\ UNCHANGED loadPage
        /\ download' = None
  /\ UNCHANGED <<pdfFile, numPages, annotations, selectedAnnotation, loading,
                 storage, now, pending, exportAnnotations,
                 pdfDoc>>

\* The catch block of loadPdf: alert, setPdfFile(null).
LoadCatch ==
  /\ pc = "loadCatch"
  /\ pdfFile' = NULL
  /\ pc' = "loadReturn"
  /\ download' = None
  /\ UNCHANGED <<numPages, annotations, selectedAnnotation, loading,
                 storage, now, canvas, pending, loadPage,
                 exportAnnotations, pdfDoc, rendered>>

\* Mutant of LoadReturn: handleFileChange ends without setLoading(false).
LoadReturnStuck ==
  /\ pc = "loadReturn"
  /\ pc' = "idle"
  /\ download' = None
  /\ UNCHANGED <<pdfFile, numPages, annotations, selectedAnnotation, loading,
                 storage, now, canvas, pending, loadPage,
                 exportAnnotations, pdfDoc, rendered>>

\* handleFileChange after its await: setLoading(false).
LoadReturn ==
  /\ pc = "loadReturn"
  /\ loading' = FALSE
  /\ pc' = "idle"
  /\ download' = None
  /\ UNCHANGED <<pdfFile, numPages, annotations, selectedAnnotation,
                 storage, now, canvas, pending, loadPage,
                 exportAnnotations, pdfDoc, rendered>>

\* ----------------------------------------------------------- annotations
\* The page containers exist while a file is set; the spinner overlay
\* (fixed, full screen) takes the pointer events while loading.
PageShown(index) == pdfFile # NULL /\ index \in 0..(numPages - 1)

PointerFree == Mounted /\ ~loading

\* The annotation at position i of the set is rendered in some overlay.
Rendered(i) == i \in DOMAIN annotations /\ PageShown(annotations[i].page)

\* Mutant of handlePageClick: the new annotation is put in front of the set
\* ([newAnnotation, ...annotations]).
handlePageClickPrepend(pageIndex, x, y, t) ==
  /\ PointerFree
  /\ PageShown(pageIndex)
  /\ Len(annotations) < MaxAnnotations
  /\ t >= now
  /\ now' = t
  /\ LET newAnnotation == [id |-> ToString(t), page |-> pageIndex,
                           x |-> x, y |-> y, text |-> DefaultText,
                           fontSize |-> "medium"]
     IN /\ annotations' = <<newAnnotation>> \o annotations
        /\ selectedAnnotation' = newAnnotation.id
        /\ storage' = Some(JSONStringify(annotations'))
        /\ download' = None
  /\ UNCHANGED <<pdfFile, numPages, loading, canvas, pc, pending,
                 loadPage, exportAnnotations, pdfDoc, rendered>>

\* handlePageClick for a click on the page surface, outside every annotation
\* element (a click inside one is stopped by the annotation's own handler
\* and would return at the closest('.annotation-text') test).  t is the
\* value Date.now() returns: not less than its previous value.
handlePageClick(pageIndex, x, y, t) ==
  /\ PointerFree
  /\ PageShown(pageIndex)
  /\ Len(annotations) < MaxAnnotations
  /\ t >= now
  /\ now' = t
  /\ LET newAnnotation == [id |-> ToString(t), page |-> pageIndex,
                           x |-> x, y |-> y, text |-> DefaultText,
                           fontSize |-> "medium"]
     IN /\ annotations' = Append(annotations, newAnnotation)
        /\ selectedAnnotation' = newAnnotation.id
        /\ storage' = Some(JSONStringify(annotations'))
        /\ download' = None
  /\ UNCHANGED <<pdfFile, numPages, loading, canvas, pc, pending,
                 loadPage, exportAnnotations, pdfDoc, rendered>>

\* The offsets (clientX - rect.left, clientY - rect.top) tried on a page
\* surface: its top-left and its bottom-right corner.
ClickPoints(surface) == {<<0, 0>>, <<surface.w, surface.h>>}

\* A click on the page surface of page pageIndex at an offset within it.
ClickPage ==
  \E pageIndex \in 0..(numPages - 1) :
    /\ pageIndex + 1 \in DOMAIN canvas
    /\ \E pt \in ClickPoints(canvas[pageIndex + 1]), t \in 1..MaxClock :
         handlePageClick(pageIndex, pt[1], pt[2], t)

\* Mutant of ClickAnnotation: the click is not stopped and not recognised as
\* inside an annotation, so the page handler also places a new annotation
\* at the clicked one's offset.
ClickAnnotationSpawn(i) ==
  /\ PointerFree
  /\ Rendered(i)
  /\ LET newAnnotation == [id |-> ToString(now), page |-> annotations[i].page,
                           x |-> annotations[i].x, y |-> annotations[i].y,
                           text |-> DefaultText, fontSize |-> "medium"]
     IN /\ annotations' = Append(annotations, newAnnotation)
        /\ selectedAnnotation' = newAnnotation.id
        /\ storage' = Some(JSONStringify(annotations'))
  /\ download' = None
  /\ UNCHANGED <<pdfFile, numPages, loading, now, canvas, pc, pending,
                 loadPage, exportAnnotations, pdfDoc, rendered>>

\* onClick of an annotation element: stopPropagation, select it.
ClickAnnotation(i) ==
  /\ PointerFree
  /\ Rendered(i)
  /\ selectedAnnotation' = annotations[i].id
  /\ download' = None
  /\ UNCHANGED <<pdfFile, numPages, annotations, loading, storage, now, canvas, pc, pending, loadPage,
                 exportAnnotations, pdfDoc, rendered>>

\* Mutant of MapText: the id is not compared, every annotation takes the
\* new text.
MapTextAll(anns, id, newText) ==
  [k \in 1..Len(anns) |-> [anns[k] EXCEPT !.text = newText]]

\* annotations.map(ann => ann.id === id ? { ...ann, text: newText } : ann)
MapText(anns, id, newText) ==
  [k \in 1..Len(anns) |->
     IF anns[k].id = id THEN [anns[k] EXCEPT !.text = newText] ELSE anns[k]]

\* annotations.map(ann => ann.id === id ? { ...ann, fontSize: size } : ann)
MapFontSize(anns, id, size) ==
  [k \in 1..Len(anns) |->
     IF anns[k].id = id THEN [anns[k] EXCEPT !.fontSize = size] ELSE anns[k]]

\* onChange of the textarea of the annotation at position i (typing needs
\* the keyboard only, so it is not held back by the spinner overlay).
handleAnnotationChange(i, newText) ==
  /\ Mounted
  /\ Rendered(i)
  /\ annotations' = MapText(annotations, annotations[i].id, newText)
  /\ storage' = Some(JSONStringify(annotations'))
  /\ download' = None
  /\ UNCHANGED <<pdfFile, numPages, selectedAnnotation, loading, now, canvas,
                 pc, pending, loadPage, exportAnnotations, pdfDoc, rendered>>

\* The S/M/L buttons of the editing chrome, shown for the selected
\* annotation and worked with the pointer; the click then bubbles to the
\* annotation's onClick.
handleFontSizeChange(i, size) ==
  /\ PointerFree
  /\ Rendered(i)
  /\ selectedAnnotation = annotations[i].id
  /\ annotations' = MapFontSize(annotations, annotations[i].id, size)
  /\ selectedAnnotation' = annotations[i].id
  /\ storage' = Some(JSONStringify(annotations'))
  /\ download' = None
  /\ UNCHANGED <<pdfFile, numPages, loading, now, canvas, pc, pending,
                 loadPage, exportAnnotations, pdfDoc, rendered>>

\* The Del button of the editing chrome, worked with the pointer; the click
\* then bubbles to the annotation's onClick, which sets the selection to the
\* same id.
handleDeleteAnnotation(i) ==
  /\ PointerFree
  /\ Rendered(i)
  /\ selectedAnnotation = annotations[i].id
  /\ annotations' = FilterNotId(annotations, annotations[i].id)
  /\ selectedAnnotation' = annotations[i].id
  /\ storage' = Some(JSONStringify(annotations'))
  /\ download' = None
  /\ UNCHANGED <<pdfFile, numPages, loading, now, canvas, pc, pending,
                 loadPage, exportAnnotations, pdfDoc, rendered>>

\* ----------------------------------------------------------------- export
fontSizeMap == [small |-> 10, medium |-> 14, large |-> 18]

\* Mutant of LoadDocument: the document already holds a text object added
\* by an earlier export.
LoadDocumentStale(f) ==
  [pages |-> SubSeq(Files[f].sizes, 1, Files[f].libPages),
   texts |-> <<[page |-> 0, text |-> DefaultText, x |-> 0, y |-> 0,
                size |-> 14]>>]

\* PDFDocument.load(existingPdfBytes): a new in-memory document decoded from
\* the bytes of the file; the file itself holds no added text.
LoadDocument(f) ==
  [pages |-> SubSeq(Files[f].sizes, 1, Files[f].libPages), texts |-> <<>>]

\* Mutant of drawText: the size an annotation has at creation (medium) is
\* used whatever its fontSize is now.
drawTextCreationSize(doc, ann) ==
  LET height == doc.pages[ann.page + 1].h
      y == height - ann.y
  IN [doc EXCEPT !.texts =
        Append(@, [page |-> ann.page, text |-> ann.text, x |-> ann.x,
                   y |-> y, size |-> fontSizeMap["medium"]])]

\* The body of the for loop for one annotation whose page exists.
drawText(doc, ann) ==
  LET height == doc.pages[ann.page + 1].h
      y == height - ann.y
  IN [doc EXCEPT !.texts =
        Append(@, [page |-> ann.page, text |-> ann.text, x |-> ann.x,
                   y |-> y, size |-> fontSizeMap[ann.fontSize]])]

\* for (const ann of annotations): pages[ann.page] is undefined for an index
\* past the end of pages, and page.getSize() then throws.
RECURSIVE DrawLoop(_, _)
DrawLoop(doc, anns) ==
  IF anns = <<>> THEN [doc |-> doc, thrown |-> FALSE]
  ELSE IF Head(anns).page + 1 \notin DOMAIN doc.pages
       THEN [doc |-> doc, thrown |-> TRUE]
       ELSE DrawLoop(drawText(doc, Head(anns)), Tail(anns))

\* Mutant of ExportStart: setLoading(true) is left out, so the controls stay
\* enabled during the export.
ExportStartNoBusy ==
  /\ Mounted
  /\ ~loading
  /\ pdfFile # NULL
  /\ exportAnnotations' = annotations
  /\ pc' = "expLoad"
  /\ download' = None
  /\ UNCHANGED <<pdfFile, numPages, annotations, selectedAnnotation, loading,
                 storage, now, canvas, pending, loadPage,
                 pdfDoc, rendered>>

\* exportPdf up to its first await; the button is disabled without a file
\* and while loading.  The body works on the annotations of this render.
ExportStart ==
  /\ Mounted
  /\ ~loading
  /\ pdfFile # NULL
  /\ loading' = TRUE
  /\ exportAnnotations' = annotations
  /\ pc' = "expLoad"
  /\ download' = None
  /\ UNCHANGED <<pdfFile, numPages, annotations, selectedAnnotation,
                 storage, now, canvas, pending, loadPage,
                 pdfDoc, rendered>>

\* arrayBuffer, PDFDocument.load and embedFont resolve and the loop draws
\* every annotation; it stops at the await of save.
ExportDraw ==
  /\ pc = "expLoad"
  /\ LET r == DrawLoop(LoadDocument(pdfFile), exportAnnotations)
     IN /\ ~r.thrown
        /\ pdfDoc' = Some(r.doc)
  /\ pc' = "expSave"
  /\ download' = None
  /\ UNCHANGED <<pdfFile, numPages, annotations, selectedAnnotation, loading,
                 storage, now, canvas, pending, loadPage,
                 exportAnnotations, rendered>>

\* The loop throws: catch, alert, setLoading(false).
ExportDrawThrow ==
  /\ pc = "expLoad"
  /\ DrawLoop(LoadDocument(pdfFile), exportAnnotations).thrown
  /\ pdfDoc' = None
  /\ loading' = FALSE
  /\ exportAnnotations' = <<>>
  /\ pc' = "idle"
  /\ download' = None
  /\ UNCHANGED <<pdfFile, numPages, annotations, selectedAnnotation,
                 storage, now, canvas, pending, loadPage, rendered>>

\* Mutant of ExportFail: the catch block offers what has been drawn so far.
ExportFailPartial ==
  /\ pc \in {"expLoad", "expSave"}
  /\ pdfDoc' = None
  /\ loading' = FALSE
  /\ exportAnnotations' = <<>>
  /\ pc' = "idle"
  /\ download' = Some([file |-> pdfFile, source |-> exportAnnotations,
                       texts |-> IF pdfDoc = None THEN <<>>
                                 ELSE pdfDoc[1].texts])
  /\ UNCHANGED <<pdfFile, numPages, annotations, selectedAnnotation,
                 storage, now, canvas, pending, loadPage, rendered>>

\* arrayBuffer, PDFDocument.load, embedFont or save rejects: catch, alert,
\* setLoading(false).
ExportFail ==
  /\ pc \in {"expLoad", "expSave"}
  /\ pdfDoc' = None
  /\ loading' = FALSE
  /\ exportAnnotations' = <<>>
  /\ pc' = "idle"
  /\ download' = None
  /\ UNCHANGED <<pdfFile, numPages, annotations, selectedAnnotation,
                 storage, now, canvas, pending, loadPage, rendered>>

\* save resolves: the bytes are offered as edited.pdf, setLoading(false).
ExportSave ==
  /\ pc = "expSave"
  /\ download' = Some([file |-> pdfFile, source |-> exportAnnotations,
                       texts |-> pdfDoc[1].texts])
  /\ pdfDoc' = None
  /\ loading' = FALSE
  /\ exportAnnotations' = <<>>
  /\ pc' = "idle"
  /\ UNCHANGED <<pdfFile, numPages, annotations, selectedAnnotation, storage,
                 now, canvas, pending, loadPage, rendered>>

\* ------------------------------------------------------------------- Spec
Next ==
  \/ MountEffects
  \/ RestoreCommit
  \/ \E f \in FileNames \cup {NULL} : handleFileChange(f)
  \/ LoadDecode
  \/ LoadDecodeFail
  \/ \E ok \in BOOLEAN : LoadRenderPage(ok)
  \/ LoadCatch
  \/ LoadReturn
  \/ ClickPage
  \/ \E i \in DOMAIN annotations : ClickAnnotation(i)
  \/ \E i \in DOMAIN annotations, t \in Texts : handleAnnotationChange(i, t)
  \/ \E i \in DOMAIN annotations, s \in FontSizes : handleFontSizeChange(i, s)
  \/ \E i \in DOMAIN annotations : handleDeleteAnnotation(i)
  \/ ExportStart
  \/ ExportDraw
  \/ ExportDrawThrow
  \/ ExportFail
  \/ ExportSave

Spec == Init /\ [][Next]_vars

\* The continuation of a started loadPdf or exportPdf: the file read, the
\* decode, each page render and the save each resolve or reject, and the
\* code after an await runs once its promise has settled.
Completion ==
  \/ LoadDecode
  \/ LoadDecodeFail
  \/ \E ok \in BOOLEAN : LoadRenderPage(ok)
  \/ LoadCatch
  \/ LoadReturn
  \/ ExportDraw
  \/ ExportDrawThrow
  \/ ExportFail
  \/ ExportSave

\* The program under the assumption that every awaited promise settles.
FairSpec == Spec /\ WF_vars(Completion)

\* ================================================================ claims
\* The text objects of the offered document, paired with the annotations
\* the export worked on.
Drawn == IF download = None THEN {} ELSE DOMAIN download[1].texts

DrawnText(i) == download[1].texts[i]

DrawnFrom(i) == download[1].source[i]

\* Height of the PDF page, and of its pixel surface, that annotation a of
\* the offered document lies on.
PdfHeightOf(a) == Files[download[1].file].sizes[a.page + 1].h

PdfWidthOf(a) == Files[download[1].file].sizes[a.page + 1].w

SurfaceOf(a) == getViewport(download[1].file, a.page + 1)

\* C1: on a page whose pixel surface has height H, an annotation at screen
\* y = 0 is drawn at the top edge of the PDF page, one at screen y = H is
\* drawn at PDF y = 0, and of two annotations on one page the one with the
\* larger screen y is drawn at the strictly smaller PDF y.
C1_FlipExact ==
  \A i \in Drawn :
    /\ DrawnFrom(i).y = 0 => DrawnText(i).y = PdfHeightOf(DrawnFrom(i))
    /\ DrawnFrom(i).y = SurfaceOf(DrawnFrom(i)).h => DrawnText(i).y = 0
    /\ \A j \in Drawn :
         (DrawnFrom(i).page = DrawnFrom(j).page /\ DrawnFrom(i).y > DrawnFrom(j).y)
           => DrawnText(i).y < DrawnText(j).y

\* C2: an annotation recorded at screen offset (x, y) is drawn at PDF
\* x = x / S and PDF y = pdfHeight - y / S for the display scale
\* S = ScaleNum / ScaleDen, so a click at the right edge of the surface is
\* drawn at the page's PDF width.
C2_ScaleDivided ==
  \A i \in Drawn :
    /\ DrawnText(i).x * ScaleNum = DrawnFrom(i).x * ScaleDen
    /\ (PdfHeightOf(DrawnFrom(i)) - DrawnText(i).y) * ScaleNum
         = DrawnFrom(i).y * ScaleDen
    /\ DrawnFrom(i).x = SurfaceOf(DrawnFrom(i)).w
         => DrawnText(i).x = PdfWidthOf(DrawnFrom(i))

\* C3: every offered document holds exactly one added text object per
\* annotation of the set the export was started on, in the order of the
\* set, with that annotation's page and text, and nothing else (none for
\* the empty set, none left from an earlier export).
C3_ExportAddsExactlyTheSet ==
  download # None =>
    /\ Len(download[1].texts) = Len(download[1].source)
    /\ \A i \in Drawn :
         /\ DrawnText(i).page = DrawnFrom(i).page
         /\ DrawnText(i).text = DrawnFrom(i).text

\* C3 witness: a document is offered that holds two added text objects.
C3_Witness == download # None /\ Len(download[1].texts) = 2

\* The annotations of an export in flight whose page is a page of the
\* document decoded for the export.
InRange(anns, f) == {i \in DOMAIN anns : anns[i].page < Files[f].libPages}

\* C4: an export that meets an annotation whose page is not a page of the
\* re-decoded document does not fail on it: the loop does not throw and
\* draws every annotation whose page is in range.
C4_OutOfRangeSkipped ==
  pc = "expLoad" =>
    LET r == DrawLoop(LoadDocument(pdfFile), exportAnnotations)
    IN /\ ~r.thrown
       /\ Len(r.doc.texts) = Cardinality(InRange(exportAnnotations, pdfFile))

\* C5: every annotation of the set has 0 <= page < numPages.
C5_PageInRange ==
  \A i \in DOMAIN annotations :
    0 <= annotations[i].page /\ annotations[i].page < numPages

\* C6: the annotations of the set have pairwise distinct ids.
C6_DistinctIds ==
  \A i, j \in DOMAIN annotations :
    i # j => annotations[i].id # annotations[j].id

\* C7: deleting the selected annotation clears the selection.
C7_DeleteClearsSelection ==
  [][\A i \in DOMAIN annotations :
       (handleDeleteAnnotation(i) /\ selectedAnnotation = annotations[i].id)
         => selectedAnnotation' = NULL]_vars

\* C8: at most one annotation of the set is selected, that is, shows its
\* editing chrome.
C8_AtMostOneSelected ==
  Cardinality({i \in DOMAIN annotations :
                 Rendered(i) /\ selectedAnnotation = annotations[i].id}) <= 1

\* The pages that take a click: shown, with a pixel surface.
ClickablePages == {q \in 0..(numPages - 1) : q + 1 \in DOMAIN canvas}

\* C9: a click on the surface of page pageIndex appends exactly one
\* annotation to the end of the set, with that page, the clicked offset, the
\* placeholder text and size medium, and selects it; forPage(pageIndex)
\* becomes its previous value followed by the new annotation and forPage of
\* every other page is unchanged.
C9_PlaceAppends ==
  [][\A pageIndex \in ClickablePages :
       \A pt \in ClickPoints(canvas[pageIndex + 1]), t \in 1..MaxClock :
         handlePageClick(pageIndex, pt[1], pt[2], t) =>
           /\ Len(annotations') = Len(annotations) + 1
           /\ SubSeq(annotations', 1, Len(annotations)) = annotations
           /\ Last(annotations').page = pageIndex
           /\ Last(annotations').x = pt[1]
           /\ Last(annotations').y = pt[2]
           /\ Last(annotations').text = DefaultText
           /\ Last(annotations').fontSize = "medium"
           /\ selectedAnnotation' = Last(annotations').id
           /\ FilterPage(annotations', pageIndex)
                = Append(FilterPage(annotations, pageIndex), Last(annotations'))
           /\ \A q \in 0..(numPages - 1) :
                q # pageIndex
                  => FilterPage(annotations', q) = FilterPage(annotations, q)]_vars

\* C9 witness: an annotation was placed on a page that already held one; it
\* is the last of the set and of its page, and it is selected.
C9_Witness ==
  /\ Len(annotations) = 2
  /\ annotations[1].page = annotations[2].page
  /\ annotations[1].id # annotations[2].id
  /\ annotations[2].text = DefaultText
  /\ annotations[2].fontSize = "medium"
  /\ annotations[2].x > 0
  /\ selectedAnnotation = annotations[2].id
  /\ forPage(annotations[2].page) = annotations

UnknownId == "none"

\* anns with position k left out.
Without(anns, k) == SubSeq(anns, 1, k - 1) \o SubSeq(anns, k + 1, Len(anns))

\* The annotations of anns whose id is not id, in the order of anns.
RECURSIVE Others(_, _)
Others(anns, id) ==
  IF anns = <<>> THEN <<>>
  ELSE IF Last(anns).id = id THEN Others(Without(anns, Len(anns)), id)
       ELSE Append(Others(Without(anns, Len(anns)), id), Last(anns))

\* C11: updateText, updateFontSize and remove of an id touch only the
\* annotations carrying that id: updateText changes only their text,
\* updateFontSize only their fontSize, remove only deletes them; the other
\* annotations, the other fields and the order of what remains are
\* unchanged, and for an id no annotation carries the set is unchanged.
C11_EditsTouchOnlyTheId ==
  /\ [](/\ \A t \in Texts : MapText(annotations, UnknownId, t) = annotations
        /\ \A sz \in FontSizes :
             MapFontSize(annotations, UnknownId, sz) = annotations
        /\ FilterNotId(annotations, UnknownId) = annotations)
  /\ [][/\ \A i \in DOMAIN annotations, t \in Texts :
             handleAnnotationChange(i, t) =>
               /\ Len(annotations') = Len(annotations)
               /\ \A k \in DOMAIN annotations :
                    IF annotations[k].id = annotations[i].id
                    THEN annotations'[k] = [annotations[k] EXCEPT !.text = t]
                    ELSE annotations'[k] = annotations[k]
        /\ \A i \in DOMAIN annotations, sz \in FontSizes :
             handleFontSizeChange(i, sz) =>
               /\ Len(annotations') = Len(annotations)
               /\ \A k \in DOMAIN annotations :
                    IF annotations[k].id = annotations[i].id
                    THEN annotations'[k] = [annotations[k] EXCEPT !.fontSize = sz]
                    ELSE annotations'[k] = annotations[k]
        /\ \A i \in DOMAIN annotations :
             handleDeleteAnnotation(i) =>
               annotations' = Others(annotations, annotations[i].id)]_vars

\* C11 witness: of two annotations with different ids the first has been
\* given a new text and a new size while the second still has the text and
\* the size it was placed with.
C11_Witness ==
  /\ Len(annotations) = 2
  /\ annotations[1].id # annotations[2].id
  /\ annotations[1].text \in Texts
  /\ annotations[1].fontSize = "large"
  /\ annotations[2].text = DefaultText
  /\ annotations[2].fontSize = "medium"

\* C12: every text object of an offered document has the point size the
\* table small 10, medium 14, large 18 gives for the fontSize the annotation
\* has when the export is started, and the table covers the three values.
C12_ExportUsesCurrentSize ==
  /\ \A sz \in FontSizes :
       sz \in DOMAIN fontSizeMap /\ fontSizeMap[sz] \in {10, 14, 18}
  /\ \A i \in Drawn :
       DrawnText(i).size =
         CASE DrawnFrom(i).fontSize = "small" -> 10
           [] DrawnFrom(i).fontSize = "medium" -> 14
           [] DrawnFrom(i).fontSize = "large" -> 18

\* C12 witness: an offered document holds a text drawn at 18 points for an
\* annotation whose size was changed to large after it was placed.
C12_Witness ==
  \E i \in Drawn :
    /\ DrawnFrom(i).fontSize = "large"
    /\ DrawnText(i).size = 18
    /\ i \in DOMAIN annotations
    /\ annotations[i].fontSize = "large"

\* A call of loadPdf or of exportPdf has started and has not yet run its
\* setLoading(false).
InFlight ==
  pc \in {"read", "render", "loadCatch", "loadReturn", "expLoad", "expSave"}

\* A step that starts a load (a PDF file is chosen) or an export.
StartsOperation ==
  \/ ExportStart
  \/ \E f \in FileNames : Files[f].type = PdfType /\ handleFileChange(f)

\* C13: at most one load or export is in flight: while one is in flight the
\* busy flag is set, which disables both controls, and a step that starts a
\* load or an export is taken only from a state with nothing in flight.
C13_OneInFlight ==
  /\ [](InFlight <=> loading)
  /\ [][StartsOperation => ~InFlight /\ ~loading /\ InFlight' /\ loading']_vars

\* C13 witness: an export is waiting for save with the busy flag set while
\* the user has typed into an annotation since it started.
C13_Witness ==
  /\ pc = "expSave"
  /\ loading
  /\ exportAnnotations # annotations

\* The last load has ended in the catch block after its document was
\* decoded: the render of page loadPage rejected.
LoadFailedAtRender == pc = "idle" /\ pdfFile = NULL /\ loadPage > 0

\* C14: after a load that failed, no document is loaded, the page count of
\* the failed document is no longer set and the busy flag is cleared.
C14_FailedLoadLeavesNothing ==
  LoadFailedAtRender => numPages = 0 /\ ~loading

\* A step of exportPdf.
ExportStep ==
  ExportStart \/ ExportDraw \/ ExportDrawThrow \/ ExportFail \/ ExportSave

\* C15: no step of exportPdf changes the loaded document, the annotation
\* set, the selection or the stored blob; a failing export offers no file and
\* clears the busy flag; and a file is offered only by the save step of an
\* export that runs on a loaded document whose draw loop did not throw.
C15_ExportFailureLeavesState ==
  [][/\ ExportStep =>
          UNCHANGED <<pdfFile, numPages, annotations, selectedAnnotation,
                      storage>>
     /\ ExportFail \/ ExportDrawThrow =>
          download' = None /\ ~loading' /\ pc' = "idle"
     /\ download' # None =>
          /\ pc = "expSave"
          /\ pdfFile # NULL
          /\ download'[1].file = pdfFile
          /\ ~DrawLoop(LoadDocument(pdfFile), exportAnnotations).thrown
          /\ ~loading']_vars

\* C15 witness: an export has started on a loaded document with a selected
\* annotation and its draw loop is about to throw.
C15_Witness ==
  /\ pc = "expLoad"
  /\ pdfFile # NULL
  /\ DrawLoop(LoadDocument(pdfFile), exportAnnotations).thrown
  /\ annotations # <<>>
  /\ selectedAnnotation # NULL

\* The choices of the file dialog that handleFileChange rejects: no file, or
\* a file whose declared type is not application/pdf.
Rejected == {f \in FileNames \cup {NULL} : f = NULL \/ Files[f].type # PdfType}

\* C16: choosing a file whose declared type is not application/pdf starts no
\* load (no read or decode is begun) and leaves pdfFile, numPages, the
\* annotation set, the selection, the busy flag and the stored blob as they
\* were, in whatever state the choice is made.
C16_NonPdfRejected ==
  [][\A f \in Rejected :
       handleFileChange(f) =>
         /\ pc' = pc
         /\ pc' # "read"
         /\ UNCHANGED <<pdfFile, numPages, annotations, selectedAnnotation,
                        loading, storage, canvas, loadPage, rendered>>]_vars

\* C16 witness: a document with a selected annotation is loaded and the file
\* control is enabled, so a non-PDF file can be chosen; nothing is being
\* offered for download.
C16_Witness ==
  /\ pc = "idle"
  /\ ~loading
  /\ pdfFile # NULL
  /\ numPages > 0
  /\ annotations # <<>>
  /\ selectedAnnotation # NULL
  /\ download = None
  /\ \E f \in Rejected : f # NULL /\ ENABLED handleFileChange(f)

\* C17: whenever a load or an export is in flight, it eventually ends and
\* the busy flag is false again with the file control enabled, given that
\* every awaited read, decode, render and save resolves or rejects.
C17_BusyEnds ==
  (loading \/ InFlight) ~> (~loading /\ pc = "idle" /\ ENABLED handleFileChange(NULL))

\* C17 witness: a load that was started has ended in failure at the render
\* of a page and the busy flag is false.
C17_Witness ==
  /\ LoadFailedAtRender
  /\ ~loading
  /\ ~InFlight

\* The annotation set held under 'pdf-annotations', if any.
Stored == IF storage = None THEN <<>> ELSE JSONParse(storage[1])

\* C18: once the component is mounted, the stored blob always decodes to the
\* current annotation set, so every change of the set has overwritten it; a
\* non-empty set found at startup is taken up by the mount step, becomes the
\* annotation set in the one commit that follows, and no later step restores
\* again.
C18_StoredFollowsSet ==
  /\ [](Mounted => storage # None /\ Stored = annotations)
  /\ [][/\ pc = "mount" /\ Stored # <<>> =>
             pc' = "restore" /\ pending' = Stored
        /\ pc = "restore" =>
             annotations' = pending /\ Stored' = pending /\ pc' = "idle"
        /\ pc' = "restore" => pc = "mount"
        /\ pc' = "mount" => pc = "mount"
        /\ annotations' # annotations => storage' # storage]_vars

\* C18 witness: the set found at startup has been restored as the annotation
\* set and written back after the persist of the empty set on mount.
C18_Witness ==
  /\ pc = "idle"
  /\ annotations # <<>>
  /\ annotations[1].id = "0"
  /\ storage = Some(JSONStringify(annotations))
  /\ Stored = annotations

\* C19: in every state without a loaded document the annotation set is
\* empty, and while a newly chosen document is being loaded, before any of
\* its pages takes a click, the set is empty as well.
C19_NoAnnotationWithoutDocument ==
  /\ pdfFile = NULL => annotations = <<>>
  /\ pc \in {"read", "render", "loadCatch", "loadReturn"} => annotations = <<>>

\* C20: at every moment of a load the pages whose render has completed are
\* the pages before the one the loop is at, so they form a prefix of the
\* document's pages; when the render of page k rejects, exactly the pages
\* before k have been rendered; and a load that succeeds has rendered all.
C20_RenderedInPageOrder ==
  /\ rendered = 1..Cardinality(rendered)
  /\ Cardinality(rendered) <= numPages
  /\ pc = "render" => rendered = 1..(loadPage - 1)
  /\ pc = "loadCatch" /\ loadPage > 0 => rendered = 1..(loadPage - 1)
  /\ pc \in {"loadReturn", "idle"} /\ pdfFile # NULL => rendered = 1..numPages

\* C20 witness: the render of page 2 of a two-page document has rejected
\* after page 1 was rendered.
C20_Witness ==
  /\ pc = "loadCatch"
  /\ numPages = 2
  /\ loadPage = 2
  /\ rendered = {1}

====
